---- MODULE Spec2Model ----
(***************************************************************************)
(* Model of plugins/modules/create_file.py: one module invocation          *)
(* (run_module) is a sequence of steps over the file system of the         *)
(* managed host.  The host may invoke the same task again, possibly in     *)
(* check mode.                                                             *)
(***************************************************************************)
EXTENDS Integers, FiniteSets, Sequences, TLC

\* Number of invocations of the task in one behaviour.
MaxRuns == 2

\* Python's None.
None == "<None>"

\* Characters of a text: a letter, line feed and carriage return.
LF == "\n"
CR == "\r"

\* The target path of the task and the text contents considered: a content is
\* the sequence of its characters.
Path == "/tmp/a.txt"
Contents == {<<"h">>, <<"h", LF>>, <<"h", CR, LF>>}

\* Python's None where a text is expected, and where a backup name is.
NoContent == <<None>>
NoBackup == <<>>

\* Owners, groups and modes a file can have; a new file gets the defaults of
\* the process that creates it.
Owners == {"root", "app"}
Groups == {"root", "app"}
Modes == {"0644", "0600"}
DefaultOwner == "root"
DefaultGroup == "root"
DefaultMode == "0644"

\* What the task can ask for: None leaves the attribute alone.
ReqOwners == {None, "app"}
ReqGroups == {None, "app"}
ReqModes == {None, "0600"}

\* str(e) of the OSError an OS call can raise.
OSErrors == {"EACCES", "ENOSPC"}

VARIABLES
    fs,                 \* file system: parent directory, target file, backups
    params,             \* module.params
    check_mode,         \* module.check_mode
    diff_mode,          \* module._diff
    pc,                 \* position in run_module
    file_exists,        \* local of run_module
    existing_content,   \* local of run_module
    result,             \* the result dict
    outcome,            \* how the invocation ended: exit_json or fail_json
    warnings,           \* number of module.warn calls of this invocation
    calls,              \* calls made by this invocation, per helper
    os_error,           \* str(e) of the OSError this invocation ran into
    run,                \* number of invocations started
    fs0,                \* file system when the invocation started
    prev                \* summary of the previous invocation

vars == <<fs, params, check_mode, diff_mode, pc, file_exists, existing_content,
          result, outcome, warnings, calls, os_error, run, fs0, prev>>

----------------------------------------------------------------------------
\* The file system

NoFile == [exists |-> FALSE, content |-> NoContent, owner |-> None, group |-> None,
           mode |-> None]

Files == {NoFile} \cup
         [exists : {TRUE}, content : Contents, owner : Owners, group : Groups,
          mode : Modes]

\* argument_spec of the module, with add_file_common_args
Params == [path : {Path}, content : Contents, owner : ReqOwners,
           group : ReqGroups, mode : ReqModes, force : BOOLEAN,
           backup : BOOLEAN]

\* result = dict(changed=False, path='', content='')
InitResult == [changed |-> FALSE, path |-> "", content |-> <<>>,
               has_diff |-> FALSE, diff |-> None, diff_before |-> NoContent,
               diff_after |-> NoContent, backup_file |-> NoBackup]

NoCalls == [write_file |-> 0, create_backup |-> 0, set_attrs |-> 0]

Running == [kind |-> "running", msg |-> None, err |-> None]

NoPrev == [valid |-> FALSE, check_mode |-> FALSE, kind |-> None,
           changed |-> FALSE,
           fs0 |-> [dir |-> FALSE, file |-> NoFile, backups |-> {}]]

Init ==
    /\ \E d \in BOOLEAN, f \in Files :
          /\ (f.exists => d)
          /\ fs = [dir |-> d, file |-> f, backups |-> {}]
    /\ params \in Params
    /\ check_mode = FALSE
    /\ diff_mode = FALSE
    /\ pc = "idle"
    /\ file_exists = FALSE
    /\ existing_content = NoContent
    /\ result = InitResult
    /\ outcome = Running
    /\ warnings = 0
    /\ calls = NoCalls
    /\ os_error = None
    /\ run = 0
    /\ fs0 = fs
    /\ prev = NoPrev

----------------------------------------------------------------------------
\* The host invokes the task: a new process runs run_module from its top.
Invoke ==
    /\ pc \in {"idle", "done"}
    /\ run < MaxRuns
    /\ run' = run + 1
    /\ prev' = IF pc = "done"
               THEN [valid |-> TRUE, check_mode |-> check_mode,
                     kind |-> outcome.kind, changed |-> result.changed,
                     fs0 |-> fs0]
               ELSE NoPrev
    /\ check_mode' \in BOOLEAN
    /\ diff_mode' \in BOOLEAN
    /\ result' = InitResult
    /\ outcome' = Running
    /\ warnings' = 0
    /\ calls' = NoCalls
    /\ os_error' = None
    /\ file_exists' = FALSE
    /\ existing_content' = NoContent
    /\ fs0' = fs
    /\ pc' = "exists"
    /\ UNCHANGED <<fs, params>>

----------------------------------------------------------------------------
\* Helpers of run_module

\* open(path, 'r').read(): text mode with universal newlines turns "\r\n" and
\* a lone "\r" into "\n".
RECURSIVE ReadText(_)
ReadText(s) ==
    IF s = <<>> THEN <<>>
    ELSE IF Head(s) = CR
         THEN IF Len(s) >= 2 /\ s[2] = LF
              THEN <<LF>> \o ReadText(SubSeq(s, 3, Len(s)))
              ELSE <<LF>> \o ReadText(Tail(s))
         ELSE <<Head(s)>> \o ReadText(Tail(s))

\* os.linesep of the managed (POSIX) host
LineSep == <<LF>>

\* open(path, 'w').write(): text mode writes each "\n" as os.linesep.
RECURSIVE WriteText(_)
WriteText(s) ==
    IF s = <<>> THEN <<>>
    ELSE (IF Head(s) = LF THEN LineSep ELSE <<Head(s)>>) \o WriteText(Tail(s))

\* What a write that fails part-way can leave in the file
Prefixes(s) == {SubSeq(s, 1, k) : k \in 0..Len(s)}

\* A force check that refuses the wrong case.
ForceRefuses_Inverted(force, exists) == ~force /\ ~exists

\* if not force and file_exists
ForceRefuses(force, exists) == ~force /\ exists

\* if not file_exists or existing_content != content
NeedsChange(exists, existing, content) == ~exists \/ existing # content

\* if module._diff or module.check_mode
WantsDiff(diff, check) == diff \/ check

\* if backup and file_exists
WantsBackup(backup, exists) == backup /\ exists

\* get_file_diff: None when the path does not exist
GetFileDiff(file, content) ==
    IF file.exists
    THEN [diff |-> "dict", diff_before |-> ReadText(file.content),
          diff_after |-> content]
    ELSE [diff |-> None, diff_before |-> NoContent, diff_after |-> NoContent]

\* module.backup_local names the copy <path>.<pid>.<timestamp>~; each
\* invocation is a process of its own at a later time.
BackupName(p, n) == <<p, n>>

\* The backups after module.backup_local(path): a copy of the file's bytes
BackupLocal(backups, name, file) ==
    {b \in backups : b.name # name} \cup
    {[name |-> name, content |-> file.content]}

\* A run_module without the early exit of check mode.
ExitsEarly_Never(check) == FALSE

\* if module.check_mode: leave before anything is touched
ExitsEarly(check) == check

\* open(path, 'w'): an existing file is truncated and keeps its attributes, a
\* missing one is created with the attributes of the process.
OpenedForWrite(file) ==
    IF file.exists
    THEN [file EXCEPT !.content = <<>>]
    ELSE [exists |-> TRUE, content |-> <<>>, owner |-> DefaultOwner,
          group |-> DefaultGroup, mode |-> DefaultMode]

\* A write_file that opens the file and writes nothing.
Written_Empty(file, content) == OpenedForWrite(file)

\* f.write(content) on the opened file
Written(file, content) ==
    [OpenedForWrite(file) EXCEPT !.content = WriteText(content)]

\* The file after module.set_fs_attributes_if_different(file_args, ...):
\* each attribute the task names is set when it differs.
ApplyAttrs(file, p) ==
    [file EXCEPT !.owner = IF p.owner = None THEN @ ELSE p.owner,
                 !.group = IF p.group = None THEN @ ELSE p.group,
                 !.mode  = IF p.mode = None THEN @ ELSE p.mode]

\* The value module.set_fs_attributes_if_different(file_args, changed) returns
SetFsAttributesIfDifferent(file, p, changed) ==
    changed \/ ApplyAttrs(file, p) # file

\* module.exit_json(**result)
ExitJson == [kind |-> "ok", msg |-> None, err |-> None]

\* module.fail_json(msg=..., **result)
FailJson(kind, e) == [kind |-> kind, msg |-> kind, err |-> e]

----------------------------------------------------------------------------
\* Steps of run_module

\* file_exists = os.path.exists(path); fail when force=no and the file exists
CheckExists ==
    /\ pc = "exists"
    /\ file_exists' = fs.file.exists
    /\ IF ForceRefuses(params.force, fs.file.exists)
       THEN /\ outcome' = FailJson("PreconditionFailed", None)
            /\ pc' = "done"
       ELSE /\ pc' = "read"
            /\ UNCHANGED outcome
    /\ UNCHANGED <<os_error, fs, params, check_mode, diff_mode,
                   existing_content, result, warnings, calls, run, fs0, prev>>

\* The existing file is read, or there is none to read.
ReadExisting ==
    /\ pc = "read"
    /\ existing_content' = IF file_exists THEN ReadText(fs.file.content)
                                          ELSE NoContent
    /\ pc' = "compare"
    /\ UNCHANGED <<os_error, fs, params, check_mode, diff_mode, file_exists, result,
                   outcome, warnings, calls, run, fs0, prev>>

\* open/read of the existing file raises IOError or OSError
ReadFails ==
    /\ pc = "read"
    /\ file_exists
    /\ \E e \in OSErrors : /\ os_error' = e
                           /\ outcome' = FailJson("ReadIOError", e)
    /\ pc' = "done"
    /\ UNCHANGED <<fs, params, check_mode, diff_mode, file_exists,
                   existing_content, result, warnings, calls, run, fs0, prev>>

\* changed is decided; path and content go into the result
DecideChanged ==
    /\ pc = "compare"
    /\ result' = [result EXCEPT
                    !.changed = IF NeedsChange(file_exists, existing_content,
                                               params.content)
                                THEN TRUE ELSE @,
                    !.path = params.path,
                    !.content = params.content]
    /\ pc' = "diff"
    /\ UNCHANGED <<os_error, fs, params, check_mode, diff_mode, file_exists,
                   existing_content, outcome, warnings, calls, run, fs0, prev>>

\* result['diff'] = get_file_diff(...) in check mode or diff mode
AddDiff ==
    /\ pc = "diff"
    /\ result' = IF WantsDiff(diff_mode, check_mode)
                 THEN LET d == GetFileDiff(fs.file, params.content)
                      IN  [result EXCEPT !.has_diff = TRUE,
                                         !.diff = d.diff,
                                         !.diff_before = d.diff_before,
                                         !.diff_after = d.diff_after]
                 ELSE result
    /\ pc' = "mode"
    /\ UNCHANGED <<os_error, fs, params, check_mode, diff_mode, file_exists,
                   existing_content, outcome, warnings, calls, run, fs0, prev>>

\* if module.check_mode: module.exit_json(**result)
CheckModeExit ==
    /\ pc = "mode"
    /\ ExitsEarly(check_mode)
    /\ outcome' = ExitJson
    /\ pc' = "done"
    /\ UNCHANGED <<os_error, fs, params, check_mode, diff_mode, file_exists,
                   existing_content, result, warnings, calls, run, fs0, prev>>

\* if not result['changed']: only the attributes are looked at
UnchangedExit ==
    /\ pc = "mode"
    /\ ~ExitsEarly(check_mode)
    /\ ~result.changed
    /\ fs' = [fs EXCEPT !.file = ApplyAttrs(@, params)]
    /\ result' = [result EXCEPT !.changed =
                    IF SetFsAttributesIfDifferent(fs.file, params, result.changed)
                    THEN TRUE ELSE @]
    /\ calls' = [calls EXCEPT !.set_attrs = @ + 1]
    /\ outcome' = ExitJson
    /\ pc' = "done"
    /\ UNCHANGED <<os_error, params, check_mode, diff_mode, file_exists,
                   existing_content, warnings, run, fs0, prev>>

\* The file has to be written: on to the backup
Proceed ==
    /\ pc = "mode"
    /\ ~ExitsEarly(check_mode)
    /\ result.changed
    /\ pc' = "backup"
    /\ UNCHANGED <<os_error, fs, params, check_mode, diff_mode, file_exists,
                   existing_content, result, outcome, warnings, calls, run,
                   fs0, prev>>

\* No backup is asked for, or there is no file to back up
BackupSkipped ==
    /\ pc = "backup"
    /\ ~WantsBackup(params.backup, file_exists)
    /\ pc' = "write"
    /\ UNCHANGED <<os_error, fs, params, check_mode, diff_mode, file_exists,
                   existing_content, result, outcome, warnings, calls, run,
                   fs0, prev>>

\* create_backup: module.backup_local copies the file and returns the name
BackupMade ==
    /\ pc = "backup"
    /\ WantsBackup(params.backup, file_exists)
    /\ LET name == BackupName(params.path, run)
       IN  /\ fs' = [fs EXCEPT !.backups = BackupLocal(@, name, fs.file)]
           /\ result' = [result EXCEPT !.backup_file = name]
    /\ calls' = [calls EXCEPT !.create_backup = @ + 1]
    /\ pc' = "write"
    /\ UNCHANGED <<os_error, params, check_mode, diff_mode, file_exists,
                   existing_content, outcome, warnings, run, fs0, prev>>

\* A create_backup that lets the failure of the copy end the module.
BackupFails_Aborts ==
    /\ pc = "backup"
    /\ WantsBackup(params.backup, file_exists)
    /\ warnings' = warnings + 1
    /\ calls' = [calls EXCEPT !.create_backup = @ + 1]
    /\ outcome' = FailJson("BackupFailure", None)
    /\ pc' = "done"
    /\ UNCHANGED <<os_error, fs, params, check_mode, diff_mode, file_exists,
                   existing_content, result, run, fs0, prev>>

\* create_backup: the copy raises, the exception is caught and warned about,
\* and None is returned
BackupFails ==
    /\ pc = "backup"
    /\ WantsBackup(params.backup, file_exists)
    /\ warnings' = warnings + 1
    /\ calls' = [calls EXCEPT !.create_backup = @ + 1]
    /\ pc' = "write"
    /\ UNCHANGED <<os_error, fs, params, check_mode, diff_mode, file_exists,
                   existing_content, result, outcome, run, fs0, prev>>

\* write_file returns (True, None)
WriteDone ==
    /\ pc = "write"
    /\ fs' = [fs EXCEPT !.dir = TRUE,
                        !.file = Written(@, params.content)]
    /\ calls' = [calls EXCEPT !.write_file = @ + 1]
    /\ pc' = "attrs"
    /\ UNCHANGED <<os_error, params, check_mode, diff_mode, file_exists,
                   existing_content, result, outcome, warnings, run, fs0, prev>>

\* A run_module that does not look at what write_file returned.
WriteFails_Ignored ==
    /\ pc = "write"
    /\ \E e \in OSErrors : os_error' = e
    /\ calls' = [calls EXCEPT !.write_file = @ + 1]
    /\ pc' = "attrs"
    /\ UNCHANGED <<fs, params, check_mode, diff_mode, file_exists,
                   existing_content, result, outcome, warnings, run, fs0, prev>>

\* write_file returns (False, str(e)): os.makedirs, open or f.write raised
WriteFails ==
    /\ pc = "write"
    /\ \E stage \in {"makedirs", "open", "write"}, e \in OSErrors,
          part \in Prefixes(WriteText(params.content)) :
          /\ (stage = "makedirs") => ~fs.dir
          /\ fs' = CASE stage = "makedirs" -> fs
                     [] stage = "open" -> [fs EXCEPT !.dir = TRUE]
                     [] stage = "write" ->
                            [fs EXCEPT !.dir = TRUE,
                                       !.file = [OpenedForWrite(@) EXCEPT
                                                    !.content = part]]
          /\ os_error' = e
          /\ outcome' = FailJson("WriteIOError", e)
    /\ calls' = [calls EXCEPT !.write_file = @ + 1]
    /\ pc' = "done"
    /\ UNCHANGED <<params, check_mode, diff_mode, file_exists,
                   existing_content, result, warnings, run, fs0, prev>>

\* The attributes of the written file are set, and the module exits
SetAttrsExit ==
    /\ pc = "attrs"
    /\ fs' = [fs EXCEPT !.file = ApplyAttrs(@, params)]
    /\ result' = [result EXCEPT !.changed =
                    IF SetFsAttributesIfDifferent(fs.file, params, result.changed)
                    THEN TRUE ELSE @]
    /\ calls' = [calls EXCEPT !.set_attrs = @ + 1]
    /\ outcome' = ExitJson
    /\ pc' = "done"
    /\ UNCHANGED <<os_error, params, check_mode, diff_mode, file_exists,
                   existing_content, warnings, run, fs0, prev>>

Next ==
    \/ Invoke
    \/ CheckExists
    \/ ReadExisting
    \/ ReadFails
    \/ DecideChanged
    \/ AddDiff
    \/ CheckModeExit
    \/ UnchangedExit
    \/ Proceed
    \/ BackupSkipped
    \/ BackupMade
    \/ BackupFails
    \/ WriteDone
    \/ WriteFails
    \/ SetAttrsExit

Spec == Init /\ [][Next]_vars

----------------------------------------------------------------------------
\* Properties

\* The invocation has ended, by exit_json or by fail_json.
Done == pc = "done"

\* The invocation has ended by exit_json.
Succeeded == Done /\ outcome.kind = "ok"

\* The file already has every attribute the task names.
AttrsAsRequested(file) == ApplyAttrs(file, params) = file

SameAttrs(f, g) ==
    f.owner = g.owner /\ f.group = g.group /\ f.mode = g.mode

\* write_file has been called and has returned (False, str(e)).
WriteFailed == calls.write_file > 0 /\ os_error # None

\* The backup this invocation makes: named after it, holding the bytes the
\* file had when the invocation started.
BackupOfOld == [name |-> BackupName(params.path, run),
                content |-> fs0.file.content]

\* C1: in check mode (dryRun) an invocation never changes the file system,
\* whatever changed it computes: no directory, no write, no backup, no
\* attribute; write_file, create_backup and set_fs_attributes_if_different are
\* not even called.
C1_DryRunNoMutation ==
    (run > 0 /\ check_mode) => (fs = fs0 /\ calls = NoCalls)

C1_Witness ==
    /\ Succeeded /\ check_mode /\ result.changed
    /\ fs0.file.exists /\ params.backup
    /\ ~AttrsAsRequested(fs0.file)

\* C2: with force=no and an existing target, in check mode or not and
\* whatever the content, the invocation ends in the PreconditionFailed
\* failure right after the existence check, with the file system as it was.
C2_ForceRefusal ==
    (run > 0 /\ pc # "exists" /\ ~params.force /\ fs0.file.exists)
        => (Done /\ outcome.kind = "PreconditionFailed"
            /\ fs = fs0 /\ calls = NoCalls)

C2_Witness ==
    /\ Done /\ ~params.force /\ fs0.file.exists /\ check_mode
    /\ fs0.file.content = params.content
    /\ outcome.kind = "PreconditionFailed"

\* C3 as stated: whenever the target does not exist and force=yes, changed is
\* true and after the invocation the file holds the requested content.
C3_Original ==
    (Done /\ ~fs0.file.exists /\ params.force)
        => (result.changed /\ fs.file.exists
            /\ fs.file.content = params.content)

\* C3, amended: whenever the target does not exist and force=yes, changed is
\* true; and when the invocation is not in check mode and ends successfully,
\* the file then holds the requested content.
C3_CreatesAbsentFile ==
    (Done /\ ~fs0.file.exists /\ params.force)
        => /\ result.changed
           /\ (~check_mode /\ outcome.kind = "ok")
                 => (fs.file.exists /\ fs.file.content = params.content)

C3_Witness ==
    /\ Succeeded /\ ~check_mode /\ params.force
    /\ ~fs0.file.exists /\ ~fs0.dir
    /\ fs.file.exists /\ fs.file.content = params.content

\* C4: when the target exists with the desired content and the requested
\* owner, group and mode, changed is false and nothing is touched: no write,
\* no attribute change, no backup even with backup=yes.
C4_IdenticalUntouched ==
    (Done /\ fs0.file.exists /\ fs0.file.content = params.content
          /\ AttrsAsRequested(fs0.file))
        => (~result.changed /\ fs = fs0
            /\ calls.write_file = 0 /\ calls.create_backup = 0)

\* C5: when the target exists with another content (and the invocation, not
\* in check mode, ends successfully), changed is true, the file holds the new
\* content, and with backup=yes (the backup not having failed) a backup with
\* the old content exists and is named in the result.
C5_DifferentContentRewritten ==
    (Succeeded /\ ~check_mode /\ fs0.file.exists
               /\ fs0.file.content # params.content)
        => /\ result.changed
           /\ fs.file.content = params.content
           /\ (params.backup /\ warnings = 0)
                 => /\ BackupOfOld \in fs.backups
                    /\ result.backup_file = BackupOfOld.name

\* C6: in the result of a successful invocation, changed is true exactly when
\* the file did not exist, or its content differed from the desired one, or
\* its attributes differed from the requested ones and were altered.
C6_ChangedIff ==
    Succeeded =>
        (result.changed <=>
            \/ ~fs0.file.exists
            \/ fs0.file.content # params.content
            \/ (~AttrsAsRequested(fs0.file) /\ ~SameAttrs(fs.file, fs0.file)))

\* C7: the changed a check-mode invocation reports equals the changed the
\* same task reports when it then runs for real from the same file system.
C7_DryRunReportsWouldChange ==
    (Succeeded /\ ~check_mode /\ prev.valid /\ prev.check_mode
               /\ prev.kind = "ok" /\ prev.fs0 = fs0)
        => result.changed = prev.changed

\* C8: after a successful invocation (force=yes, not check mode), invoking
\* the same task again reports changed=false and leaves the file system as
\* the first invocation left it.
C8_Idempotent ==
    (Done /\ ~check_mode /\ params.force /\ prev.valid /\ ~prev.check_mode
          /\ prev.kind = "ok")
        => (~result.changed /\ fs = fs0)

C10_WriteFailureFatal ==
    WriteFailed
        => (Done /\ outcome.kind = "WriteIOError" /\ outcome.err = os_error
            /\ calls.write_file = 1 /\ calls.set_attrs = 0)

C10_Witness ==
    /\ WriteFailed /\ ~fs0.dir /\ ~fs.dir
    /\ outcome.kind = "WriteIOError" /\ outcome.err \in OSErrors
====
